---- MODULE Spec2Model ----
(***************************************************************************)
(* tinykv: a typed key-value store over one SQLite table                   *)
(*     (k TEXT NOT NULL COLLATE NOCASE PRIMARY KEY,                        *)
(*      t TINYINT NOT NULL CHECK (t BETWEEN 1 AND 6),  v BLOB).            *)
(*                                                                         *)
(* Text is a sequence of code points, bytes a sequence of 0..255.          *)
(* A Python value is a record [ty, d]: ty is the Python type's name and d  *)
(* a sequence of integers that holds the value:                            *)
(*   NoneType <<>>        str   code points        bytes   byte values     *)
(*   bool <<0>> / <<1>>   int   <<e, n>>  =  e * 2^53 + n                  *)
(*   float <<e, h>>  =  e * 2^53 + h / 2 ;  <<1>> = +inf ;  <<>> = NaN     *)
(*   object <<id...>> (picklable)   function <<>> (a lambda: unpicklable)  *)
(*   ellipsis <<>>                                                         *)
(* An SQLite value is a record [cls, d] with cls the storage class.        *)
(*                                                                         *)
(* table is the rows of the store's table as the connection sees them,     *)
(* disk the committed content of the database file, conn the connection,   *)
(* kv the store object the caller holds.  callers is the calls in flight   *)
(* when two callers share the store.                                       *)
(***************************************************************************)
EXTENDS Integers, Sequences, FiniteSets, TLC

VARIABLES table, before, op, result, conn, disk, kv, callers

vars == <<table, before, op, result, conn, disk, kv, callers>>

----------------------------------------------------------------------------
(* Bounds of the model. *)

\* longest key sequence passed to get_many / remove_many
MaxKeys == 2
\* largest mapping passed to set_many
MaxItems == 2

----------------------------------------------------------------------------
(* Python values *)

PyNone == [ty |-> "NoneType", d |-> <<>>]
PyEllipsis == [ty |-> "ellipsis", d |-> <<>>]
PyStr(s) == [ty |-> "str", d |-> s]
PyBytes(b) == [ty |-> "bytes", d |-> b]
PyBool(b) == [ty |-> "bool", d |-> <<b>>]
PyInt(e, n) == [ty |-> "int", d |-> <<e, n>>]
PyFloat(e, h) == [ty |-> "float", d |-> <<e, h>>]
PyInf == [ty |-> "float", d |-> <<1>>]
PyNaN == [ty |-> "float", d |-> <<>>]
PyObject(id) == [ty |-> "object", d |-> id]
PyFunction == [ty |-> "function", d |-> <<>>]

\* isinstance(v, cls): bool is a subclass of int
IsInstance(v, cls) ==
    \/ v.ty = cls
    \/ cls = "int" /\ v.ty = "bool"

IsNaN(v) == v.ty = "float" /\ v.d = <<>>
IsNumber(v) == v.ty \in {"bool", "int", "float"}

\* The number a bool, int or float denotes, in halves past e * 2^53
\* (<<1>> is +inf).  Not used on NaN.
NumVal(v) ==
    IF v.ty = "bool" THEN <<0, 2 * v.d[1]>>
    ELSE IF v.ty = "int" THEN <<v.d[1], 2 * v.d[2]>>
    ELSE v.d

\* Python's ==  on these values: numbers compare by value across bool, int
\* and float, NaN equals nothing, everything else by type and content.
PyEq(a, b) ==
    IF IsNumber(a) /\ IsNumber(b)
    THEN ~IsNaN(a) /\ ~IsNaN(b) /\ NumVal(a) = NumVal(b)
    ELSE a.ty = b.ty /\ a.d = b.d

----------------------------------------------------------------------------
(* Outcomes: a returned value or a raised exception. *)

Ok(v) == [status |-> "ok", ret |-> v]
Raise(e) == [status |-> e, ret |-> PyNone]

----------------------------------------------------------------------------
(* str.encode('utf-8') and bytes.decode('utf-8'), for code points below    *)
(* 2048 (one- and two-byte forms).                                         *)

RECURSIVE Utf8Encode(_)
Utf8Encode(s) ==
    IF s = <<>> THEN <<>>
    ELSE LET c == Head(s) IN
         (IF c < 128 THEN <<c>>
          ELSE <<192 + (c \div 64), 128 + (c % 64)>>) \o Utf8Encode(Tail(s))

\* the decoded code points, or <<-1>> when the bytes are not valid UTF-8
RECURSIVE Utf8Decode(_)
Utf8Decode(b) ==
    IF b = <<>> THEN <<>>
    ELSE IF Head(b) < 128
    THEN LET rest == Utf8Decode(Tail(b)) IN
         IF rest = <<-1>> THEN rest ELSE <<Head(b)>> \o rest
    ELSE IF /\ Head(b) \in 194..223
            /\ Len(b) >= 2
            /\ b[2] \in 128..191
    THEN LET rest == Utf8Decode(Tail(Tail(b))) IN
         IF rest = <<-1>> THEN rest
         ELSE <<(Head(b) - 192) * 64 + (b[2] - 128)>> \o rest
    ELSE <<-1>>

(* pickle.dumps / pickle.loads: a PROTO opcode, one opcode naming the      *)
(* class of the pickled value, its content, a STOP opcode.                 *)
PickleProto == <<128, 4>>
PickleStop == 46
PickleClass(ty) == IF ty = "ellipsis" THEN 99 ELSE 111

PickleDumps(v) ==
    IF v.ty = "function" THEN Raise("PicklingError")
    ELSE Ok(PyBytes(PickleProto \o <<PickleClass(v.ty)>> \o v.d \o <<PickleStop>>))

PickleLoads(b) ==
    IF /\ Len(b) >= 4
       /\ SubSeq(b, 1, 2) = PickleProto
       /\ b[Len(b)] = PickleStop
       /\ b[3] \in {99, 111}
    THEN Ok([ty |-> IF b[3] = 99 THEN "ellipsis" ELSE "object",
             d |-> SubSeq(b, 4, Len(b) - 1)])
    ELSE Raise("UnpicklingError")

----------------------------------------------------------------------------
(* float(x) and float.is_integer / int(float) on the scaled numbers.       *)

\* float(int): exact below 2^53; from 2^53 to 2^54 doubles are the even
\* integers, ties go to the even mantissa.
IntToDouble(e, n) ==
    IF e = 0 \/ n < 0 THEN <<e, 2 * n>>
    ELSE IF n % 4 = 1 THEN <<e, 2 * (n - 1)>>
    ELSE IF n % 4 = 3 THEN <<e, 2 * (n + 1)>>
    ELSE <<e, 2 * n>>

\* float(data) in _unserialize
ToFloat(data) ==
    IF data.ty = "float" THEN Ok(data)
    ELSE IF IsInstance(data, "int")
    THEN Ok([ty |-> "float",
             d |-> IF data.ty = "bool" THEN <<0, 2 * data.d[1]>>
                   ELSE IntToDouble(data.d[1], data.d[2])])
    ELSE IF data.ty = "NoneType" THEN Raise("TypeError")
    ELSE Raise("ValueError")

\* number.is_integer(): finite with no fractional part
FloatIsInteger(f) == Len(f.d) = 2 /\ f.d[2] % 2 = 0

\* int(number), for a float without fractional part
FloatToInt(f) == PyInt(f.d[1], f.d[2] \div 2)

----------------------------------------------------------------------------
(* _DType *)

NONE == 1
\* _DType.STRING (STRING is a reserved word)
STR == 2
BYTES == 3
BOOL == 4
NUMBER == 5
PICKLE == 6

\* _DType(x): the enum accepts its six members only
IsDType(x) == x \in NONE..PICKLE

----------------------------------------------------------------------------
(* The value codec *)

\* TinyKV._serialize: Ok(<<dtype, data>>) or the exception of str.encode /
\* pickle.dumps
EncodedAsNumber(data) == <<NUMBER, data>>

\* an encoder that takes a bool for the int it subclasses
EncodedBoolAsNumber(data) == <<NUMBER, PyInt(0, data.d[1])>>

EncodedAsBool(data) == <<BOOL, PyInt(0, data.d[1])>>

Serialize(data) ==
    IF data.ty = "NoneType" THEN Ok(<<NONE, PyNone>>)
    ELSE IF IsInstance(data, "str") THEN Ok(<<STR, PyBytes(Utf8Encode(data.d))>>)
    ELSE IF IsInstance(data, "bytes") THEN Ok(<<BYTES, data>>)
    ELSE IF IsInstance(data, "bool") THEN Ok(EncodedAsBool(data))
    ELSE IF IsInstance(data, "int") \/ IsInstance(data, "float")
    THEN Ok(EncodedAsNumber(data))
    ELSE LET p == PickleDumps(data) IN
         IF p.status = "ok" THEN Ok(<<PICKLE, p.ret>>) ELSE p

\* the NUMBER branch of _unserialize
DecodeNumber(data) ==
    LET number == ToFloat(data) IN
    IF number.status /= "ok" THEN number
    ELSE IF FloatIsInteger(number.ret) THEN Ok(FloatToInt(number.ret))
    ELSE number

\* bool(data) on what the engine hands back
Truth(data) ==
    IF data.ty = "NoneType" THEN 0
    ELSE IF data.ty \in {"str", "bytes", "object"}
    THEN (IF data.d = <<>> THEN 0 ELSE 1)
    ELSE IF data.ty = "int" THEN (IF data.d = <<0, 0>> THEN 0 ELSE 1)
    ELSE IF data.ty = "bool" THEN data.d[1]
    ELSE IF data.ty = "float" THEN (IF data.d = <<0, 0>> THEN 0 ELSE 1)
    ELSE 1

\* TinyKV._unserialize
Unserialize(dtype, data) ==
    IF dtype = NONE THEN Ok(PyNone)
    ELSE IF dtype = STR
    THEN (IF data.ty /= "bytes" THEN Raise("AttributeError")
          ELSE IF Utf8Decode(data.d) = <<-1>> THEN Raise("UnicodeDecodeError")
          ELSE Ok(PyStr(Utf8Decode(data.d))))
    ELSE IF dtype = BYTES THEN Ok(data)
    ELSE IF dtype = BOOL THEN Ok(PyBool(Truth(data)))
    ELSE IF dtype = NUMBER THEN DecodeNumber(data)
    ELSE IF dtype = PICKLE
    THEN (IF data.ty /= "bytes" THEN Raise("TypeError") ELSE PickleLoads(data.d))
    ELSE Raise("ValueError")

----------------------------------------------------------------------------
(* The sqlite3 module's parameter binding and column fetch.                *)

SqlNull == [cls |-> "NULL", d |-> <<>>]

\* 2^63 in units of 2^53
Int64Units == 2 ^ 10

FitsInt64(e, n) ==
    \/ -Int64Units < e /\ e < Int64Units
    \/ e = Int64Units /\ n < 0
    \/ e = -Int64Units /\ n >= 0

\* a Python value bound to a ? of a statement: None is NULL, an int an
\* INTEGER (64 bits), a float a REAL except NaN, which SQLite stores as NULL,
\* str is TEXT and bytes a BLOB
BindFloat(x) ==
    IF IsNaN(x) THEN Ok(SqlNull) ELSE Ok([cls |-> "REAL", d |-> x.d])

Bind(x) ==
    IF x.ty = "NoneType" THEN Ok(SqlNull)
    ELSE IF x.ty \in {"int", "bool"}
    THEN (IF x.ty = "bool" THEN Ok([cls |-> "INTEGER", d |-> <<0, x.d[1]>>])
          ELSE IF FitsInt64(x.d[1], x.d[2]) THEN Ok([cls |-> "INTEGER", d |-> x.d])
          ELSE Raise("OverflowError"))
    ELSE IF x.ty = "float" THEN BindFloat(x)
    ELSE IF x.ty = "str" THEN Ok([cls |-> "TEXT", d |-> x.d])
    ELSE IF x.ty = "bytes" THEN Ok([cls |-> "BLOB", d |-> x.d])
    ELSE Raise("ProgrammingError")

\* a column value handed back to Python
Fetch(v) ==
    IF v.cls = "NULL" THEN PyNone
    ELSE IF v.cls = "INTEGER" THEN [ty |-> "int", d |-> v.d]
    ELSE IF v.cls = "REAL" THEN [ty |-> "float", d |-> v.d]
    ELSE IF v.cls = "TEXT" THEN PyStr(v.d)
    ELSE PyBytes(v.d)

----------------------------------------------------------------------------
(* The engine: rows [k, t, v] of the table, COLLATE NOCASE, GLOB and the   *)
(* statements the store issues.                                            *)

\* (a fold of every cased letter, as Unicode lower-casing does, would merge
\* keys that NOCASE keeps apart)
FoldEveryLetter(c) ==
    IF c \in 65..90 \/ (c \in 192..222 /\ c /= 215) THEN c + 32 ELSE c

\* NOCASE folds the 26 ASCII upper case letters and nothing else
FoldAscii(c) == IF c \in 65..90 THEN c + 32 ELSE c

NoCase(k) == [i \in 1..Len(k) |-> FoldAscii(k[i])]

\* k = ? under the column's collation
KeyEq(a, b) == NoCase(a) = NoCase(b)

Star == 42
QMark == 63

\* k GLOB ? : * is any run of characters, ? any one character, every other
\* character stands for itself, compared exactly (patterns here hold no [)
RECURSIVE Glob(_, _)
Glob(pattern, k) ==
    IF pattern = <<>> THEN k = <<>>
    ELSE IF Head(pattern) = Star
    THEN \E i \in 0..Len(k) : Glob(Tail(pattern), SubSeq(k, i + 1, Len(k)))
    ELSE IF k = <<>> THEN FALSE
    ELSE IF Head(pattern) = QMark THEN Glob(Tail(pattern), Tail(k))
    ELSE Head(pattern) = Head(k) /\ Glob(Tail(pattern), Tail(k))

\* an upsert that updates tag and payload of the row in place
\* (INSERT ... ON CONFLICT (k) DO UPDATE SET t, v)
InsertOrUpdate(tbl, row) ==
    IF \E r \in tbl : KeyEq(r.k, row.k)
    THEN {IF KeyEq(r.k, row.k) THEN [r EXCEPT !.t = row.t, !.v = row.v] ELSE r : r \in tbl}
    ELSE tbl \cup {row}

\* INSERT OR REPLACE of one row: the rows that conflict on the primary key
\* are deleted, then the row is inserted
InsertOrReplace(tbl, row) == {r \in tbl : ~KeyEq(r.k, row.k)} \cup {row}

RECURSIVE InsertRows(_, _)
InsertRows(tbl, rows) ==
    IF rows = <<>> THEN tbl
    ELSE InsertRows(InsertOrReplace(tbl, Head(rows)), Tail(rows))

Min(S) == CHOOSE x \in S : \A y \in S : x <= y

\* what a call does: its outcome and the table it leaves
Done(res, tbl) == [res |-> res, tbl |-> tbl]

\* (one statement per row, as executemany runs them, would keep the rows
\* written before the row that fails)
ExecuteInsertRowByRow(tbl, params) ==
    LET n == Len(params)
        binds == [i \in 1..n |-> Bind(params[i][3])]
        bad == {i \in 1..n : binds[i].status /= "ok"}
        upto == IF bad = {} THEN n ELSE Min(bad) - 1
        rows == [i \in 1..upto |-> [k |-> params[i][1], t |-> params[i][2],
                                    v |-> binds[i].ret]]
    IN  IF n = 0 THEN Done(Raise("OperationalError"), tbl)
        ELSE IF bad /= {} THEN Done(binds[Min(bad)], InsertRows(tbl, rows))
        ELSE Done(Ok(PyNone), InsertRows(tbl, rows))

\* INSERT OR REPLACE INTO t (k, t, v) VALUES (?, ?, ?), ... with one
\* (?, ?, ?) per element of params, each <<key, dtype, data>>.  The
\* statement is compiled (VALUES with no row is a syntax error), then all
\* parameters are bound, then it runs as one statement.
ExecuteInsert(tbl, params) ==
    LET n == Len(params)
        binds == [i \in 1..n |-> Bind(params[i][3])]
        bad == {i \in 1..n : binds[i].status /= "ok"}
        checks == {i \in 1..n : ~IsDType(params[i][2])}
        rows == [i \in 1..n |-> [k |-> params[i][1], t |-> params[i][2],
                                 v |-> binds[i].ret]]
    IN  IF n = 0 THEN Done(Raise("OperationalError"), tbl)
        ELSE IF bad /= {} THEN Done(binds[Min(bad)], tbl)
        ELSE IF checks /= {} THEN Done(Raise("IntegrityError"), tbl)
        ELSE Done(Ok(PyNone), InsertRows(tbl, rows))

\* SELECT ... WHERE k = ?
SelectByKey(tbl, key) == {r \in tbl : KeyEq(r.k, key)}

\* (a comparison of the spellings as they are, as a BINARY column compares)
SelectByKeysExact(tbl, keys) == {r \in tbl : \E i \in 1..Len(keys) : r.k = keys[i]}

\* SELECT ... WHERE k IN (?, ...)
SelectByKeys(tbl, keys) == {r \in tbl : \E i \in 1..Len(keys) : KeyEq(r.k, keys[i])}

\* SELECT ... WHERE k GLOB ?
SelectByGlob(tbl, pattern) == {r \in tbl : Glob(pattern, r.k)}

\* _unserialize(_DType(row[t]), row[v])
DecodeRow(r) ==
    IF IsDType(r.t) THEN Unserialize(r.t, Fetch(r.v)) ELSE Raise("ValueError")

\* {r[0]: self._unserialize(_DType(r[1]), r[2]) for r in rows.fetchall()}:
\* the dict as the set of its items, or the first decoding error
DecodeRows(rows) ==
    LET bad == {r \in rows : DecodeRow(r).status /= "ok"} IN
    IF bad /= {} THEN DecodeRow(CHOOSE r \in bad : TRUE)
    ELSE Ok({[key |-> r.k, val |-> DecodeRow(r).ret] : r \in rows})

----------------------------------------------------------------------------
(* The operations of TinyKV, each as the outcome and the table it leaves.  *)

\* TinyKV.set
SetCall(tbl, key, value) ==
    LET s == Serialize(value) IN
    IF s.status /= "ok" THEN Done(s, tbl)
    ELSE ExecuteInsert(tbl, << <<key, s.ret[1], s.ret[2]>> >>)

\* the default parameter of get: Ellipsis when the caller passes none
DefaultArg(vals) == IF vals = <<>> THEN PyEllipsis ELSE vals[1]

\* default != Ellipsis
DefaultGiven(default) == ~PyEq(default, PyEllipsis)

\* TinyKV.get
\* a get that takes the entry out of the table (dict.pop)
GetCallPop(tbl, key, default) ==
    LET rows == SelectByKey(tbl, key) IN
    IF rows = {}
    THEN (IF DefaultGiven(default) THEN Done(Ok(default), tbl)
          ELSE Done(Raise("KeyError"), tbl))
    ELSE Done(DecodeRow(CHOOSE r \in rows : TRUE), tbl \ rows)

\* a get that takes a row with a NULL payload for a missing entry
GetCallNullMissing(tbl, key, default) ==
    LET rows == {r \in SelectByKey(tbl, key) : r.v.cls /= "NULL"} IN
    IF rows = {}
    THEN (IF DefaultGiven(default) THEN Done(Ok(default), tbl)
          ELSE Done(Raise("KeyError"), tbl))
    ELSE Done(DecodeRow(CHOOSE r \in rows : TRUE), tbl)

GetCall(tbl, key, default) ==
    LET rows == SelectByKey(tbl, key) IN
    IF rows = {}
    THEN (IF DefaultGiven(default) THEN Done(Ok(default), tbl)
          ELSE Done(Raise("KeyError"), tbl))
    ELSE Done(DecodeRow(CHOOSE r \in rows : TRUE), tbl)

\* TinyKV.get_many
GetManyCall(tbl, keys) == Done(DecodeRows(SelectByKeys(tbl, keys)), tbl)

\* TinyKV.get_glob
GetGlobCall(tbl, glob_key) == Done(DecodeRows(SelectByGlob(tbl, glob_key)), tbl)

\* TinyKV.set_many: the parameter tuple is built first (every value is
\* serialized), then the one statement is executed
SetManyCall(tbl, keys, vals) ==
    LET n == Len(keys)
        s == [i \in 1..n |-> Serialize(vals[i])]
        bad == {i \in 1..n : s[i].status /= "ok"}
    IN  IF bad /= {} THEN Done(s[Min(bad)], tbl)
        ELSE ExecuteInsert(tbl, [i \in 1..n |-> <<keys[i], s[i].ret[1], s[i].ret[2]>>])

\* (remove without its rowcount check)
RemoveCallUnchecked(tbl, key) == Done(Ok(PyNone), tbl \ SelectByKey(tbl, key))

\* TinyKV.remove
RemoveCall(tbl, key) ==
    LET rowcount == Cardinality(SelectByKey(tbl, key)) IN
    IF rowcount = 0 THEN Done(Raise("KeyError"), tbl \ SelectByKey(tbl, key))
    ELSE Done(Ok(PyNone), tbl \ SelectByKey(tbl, key))

\* (remove_many with the rowcount check of remove)
RemoveManyCallStrict(tbl, keys) ==
    IF SelectByKeys(tbl, keys) = {} THEN Done(Raise("KeyError"), tbl)
    ELSE Done(Ok(PyNone), tbl \ SelectByKeys(tbl, keys))

\* TinyKV.remove_many
RemoveManyCall(tbl, keys) == Done(Ok(PyNone), tbl \ SelectByKeys(tbl, keys))

----------------------------------------------------------------------------
(* The state machine: one caller, one call at a time.  op is the call in   *)
(* hand with its arguments, result its outcome, before the table as the    *)
(* call found it; Return hands the outcome to the caller.                  *)

NoCall == [name |-> "none", keys |-> <<>>, vals |-> <<>>]

Idle == op.name = "none"

\* _DEF_TABLE = 'kv'
DefTable == <<107, 118>>

\* no store object in hand
NoStore == <<>>

\* the state after create_schema(conn) and TinyKV(conn) on a new database
Init ==
    /\ table = {}
    /\ before = {}
    /\ op = NoCall
    /\ result = Ok(PyNone)
    /\ conn = [open |-> TRUE, schema |-> {DefTable}]
    /\ disk = [schema |-> {DefTable}, rows |-> {}]
    /\ kv = DefTable
    /\ callers = <<>>

\* a statement on a closed connection raises and touches nothing
Execute(done, tbl) ==
    IF conn.open THEN done ELSE Done(Raise("ProgrammingError"), tbl)

\* one call on the store object: the store executes its statement and
\* neither commits nor rolls back
Finish(name, keys, vals, done) ==
    /\ kv /= NoStore
    /\ before' = table
    /\ op' = [name |-> name, keys |-> keys, vals |-> vals]
    /\ result' = Execute(done, table).res
    /\ table' = Execute(done, table).tbl
    /\ UNCHANGED <<conn, disk, kv, callers>>

SeqsUpTo(S, n) == UNION {[1..m -> S] : m \in 0..n}

\* the key sequences of a dict: no key twice
DictKeys(K, n) ==
    {ks \in SeqsUpTo(K, n) : \A i, j \in 1..Len(ks) : i /= j => ks[i] /= ks[j]}

Set(K, V) ==
    /\ Idle
    /\ \E key \in K, value \in V :
          Finish("set", <<key>>, <<value>>, SetCall(table, key, value))

Get(K, D) ==
    /\ Idle
    /\ \E key \in K, vals \in {<<>>} \cup {<<d>> : d \in D} :
          Finish("get", <<key>>, vals, GetCall(table, key, DefaultArg(vals)))

GetMany(K) ==
    /\ Idle
    /\ \E keys \in SeqsUpTo(K, MaxKeys) :
          Finish("get_many", keys, <<>>, GetManyCall(table, keys))

GetGlob(P) ==
    /\ Idle
    /\ \E glob_key \in P :
          Finish("get_glob", <<glob_key>>, <<>>, GetGlobCall(table, glob_key))

SetMany(K, V) ==
    /\ Idle
    /\ \E keys \in DictKeys(K, MaxItems) :
          \E vals \in [1..Len(keys) -> V] :
             Finish("set_many", keys, vals, SetManyCall(table, keys, vals))

Remove(K) ==
    /\ Idle
    /\ \E key \in K : Finish("remove", <<key>>, <<>>, RemoveCall(table, key))

RemoveMany(K) ==
    /\ Idle
    /\ \E keys \in SeqsUpTo(K, MaxKeys) :
          Finish("remove_many", keys, <<>>, RemoveManyCall(table, keys))

Return ==
    /\ ~Idle
    /\ op' = NoCall
    /\ result' = Ok(PyNone)
    /\ before' = table
    /\ UNCHANGED <<table, conn, disk, kv, callers>>

----------------------------------------------------------------------------
(* The store under mixed keys and values. *)

Ka == <<97>>
KA == <<65>>
Kab == <<97, 98>>
Keys == {Ka, KA, Kab}

One == PyInt(0, 1)
Text == PyStr(<<233>>)
TooBig == PyInt(Int64Units, 0)
Values == {One, Text, PyNaN, TooBig, PyFunction}

Defaults == {PyNone, PyEllipsis, One}

Patterns == {<<Star>>, <<97, Star>>, <<65, QMark>>, <<QMark>>, <<97>>, <<65, 98>>}

Next ==
    \/ Set(Keys, Values)
    \/ Get(Keys, Defaults)
    \/ GetMany(Keys)
    \/ GetGlob(Patterns)
    \/ SetMany(Keys, Values)
    \/ Remove(Keys)
    \/ RemoveMany(Keys)
    \/ Return

Spec == Init /\ [][Next]_vars

----------------------------------------------------------------------------
(* The codec under one key and every kind of value:                        *)
(* None, '', 'aé', b'', b'\xc3', False, True, 0, 1, -1, 2^53, 2^53 + 1,    *)
(* 2^53 + 3, 2^63, 0.5, 2.0, 2.5, inf, nan, complex(1, 2), Ellipsis,       *)
(* a lambda.                                                               *)

CodecKeys == {Ka}

CodecValues ==
    {PyNone, PyStr(<<>>), PyStr(<<97, 233>>), PyBytes(<<>>), PyBytes(<<195>>),
     PyBool(0), PyBool(1), PyInt(0, 0), One, PyInt(0, -1),
     PyInt(1, 0), PyInt(1, 1), PyInt(1, 3), TooBig,
     PyFloat(0, 1), PyFloat(0, 4), PyFloat(0, 5), PyInf, PyNaN,
     PyObject(<<1, 2>>), PyEllipsis, PyFunction}

NextCodec ==
    \/ Set(CodecKeys, CodecValues)
    \/ Get(CodecKeys, Defaults)
    \/ GetMany(CodecKeys)
    \/ GetGlob(Patterns)
    \/ SetMany(CodecKeys, CodecValues)
    \/ Remove(CodecKeys)
    \/ RemoveMany(CodecKeys)
    \/ Return

SpecCodec == Init /\ [][NextCodec]_vars

(* The store under keys that differ in the case of an ASCII letter (a, A)  *)
(* and of a letter outside ASCII (é, É).                                   *)

Ke == <<233>>
KE == <<201>>
CaseKeys == {Ka, KA, Ke, KE}
CaseValues == {One, Text}

NextCase ==
    \/ Set(CaseKeys, CaseValues)
    \/ Get(CaseKeys, Defaults)
    \/ GetMany(CaseKeys)
    \/ GetGlob(Patterns)
    \/ SetMany(CaseKeys, CaseValues)
    \/ Remove(CaseKeys)
    \/ RemoveMany(CaseKeys)
    \/ Return

SpecCase == Init /\ [][NextCase]_vars

----------------------------------------------------------------------------
(* The caller's side of the connection: create_schema, the constructor,    *)
(* commit, close and connect again.  The database file starts empty, the   *)
(* connection open and no store constructed.                               *)

\* a table name that is never created
Other == <<116>>
TableNames == {DefTable, Other}

InitLife ==
    /\ table = {}
    /\ before = {}
    /\ op = NoCall
    /\ result = Ok(PyNone)
    /\ conn = [open |-> TRUE, schema |-> {}]
    /\ disk = [schema |-> {}, rows |-> {}]
    /\ kv = NoStore
    /\ callers = <<>>

\* a call that is not a call on the store object
Called(name, keys, res) ==
    /\ before' = table
    /\ op' = [name |-> name, keys |-> keys, vals |-> <<>>]
    /\ result' = res
    /\ UNCHANGED callers

\* create_schema(conn): CREATE TABLE runs outside a transaction (no row can
\* have been written before the table exists), so it is durable at once
CreateSchema ==
    /\ Idle
    /\ IF ~conn.open
       THEN Called("create_schema", <<DefTable>>, Raise("ProgrammingError"))
            /\ UNCHANGED <<table, conn, disk, kv>>
       ELSE IF DefTable \in conn.schema
       THEN Called("create_schema", <<DefTable>>, Raise("OperationalError"))
            /\ UNCHANGED <<table, conn, disk, kv>>
       ELSE /\ Called("create_schema", <<DefTable>>, Ok(PyNone))
            /\ conn' = [conn EXCEPT !.schema = @ \cup {DefTable}]
            /\ disk' = [disk EXCEPT !.schema = @ \cup {DefTable}]
            /\ UNCHANGED <<table, kv>>

\* a constructor that looks for any table at all
ConstructAnyTable(schema, table_name) ==
    IF schema /= {} THEN Ok(table_name) ELSE Raise("RuntimeError")

\* TinyKV.__init__: the table is looked up by name in sqlite_master
Construct(schema, table_name) ==
    IF table_name \in schema THEN Ok(table_name) ELSE Raise("RuntimeError")

\* kv = TinyKV(conn, table_name): a failed constructor leaves the caller
\* with what it had
TinyKV(N) ==
    /\ Idle
    /\ \E table_name \in N :
          LET made == IF conn.open THEN Construct(conn.schema, table_name)
                      ELSE Raise("ProgrammingError")
          IN  /\ Called("TinyKV", <<table_name>>,
                        IF made.status = "ok" THEN Ok(PyNone) ELSE made)
              /\ kv' = IF made.status = "ok" THEN made.ret ELSE kv
              /\ UNCHANGED <<table, conn, disk>>

\* conn.commit()
Commit ==
    /\ Idle
    /\ IF conn.open
       THEN Called("commit", <<>>, Ok(PyNone)) /\ disk' = [disk EXCEPT !.rows = table]
       ELSE Called("commit", <<>>, Raise("ProgrammingError")) /\ UNCHANGED disk
    /\ UNCHANGED <<table, conn, kv>>

\* conn.close(): what was not committed is gone
Close ==
    /\ Idle
    /\ Called("close", <<>>, Ok(PyNone))
    /\ conn' = [conn EXCEPT !.open = FALSE]
    /\ table' = disk.rows
    /\ UNCHANGED <<disk, kv>>

\* conn = sqlite3.connect(path) once the old connection is closed: the new
\* connection sees the file, and a store has to be constructed over it
Connect ==
    /\ Idle
    /\ ~conn.open
    /\ Called("connect", <<>>, Ok(PyNone))
    /\ conn' = [open |-> TRUE, schema |-> disk.schema]
    /\ table' = disk.rows
    /\ kv' = NoStore
    /\ UNCHANGED disk

LifeKeys == {Ka, KA}
LifeValues == {One, PyNaN}

NextLife ==
    \/ CreateSchema
    \/ TinyKV(TableNames)
    \/ Commit
    \/ Close
    \/ Connect
    \/ Set(LifeKeys, LifeValues)
    \/ Get(LifeKeys, Defaults)
    \/ GetMany(LifeKeys)
    \/ GetGlob(Patterns)
    \/ SetMany(LifeKeys, LifeValues)
    \/ Remove(LifeKeys)
    \/ RemoveMany(LifeKeys)
    \/ Return

SpecLife == InitLife /\ [][NextLife]_vars

----------------------------------------------------------------------------
(* Two callers sharing the store.  A call is made in two steps: the method *)
(* is entered and builds its statements (TwoCall, TwoUpdate), then the     *)
(* engine executes a statement, one at a time and each as a whole          *)
(* (TwoStep); the other caller may run between any two steps.  A caller's  *)
(* record holds its call, the statements left, the number executed, the    *)
(* table the last one found, its outcome (<<>> until there is one), and    *)
(* the value the caller holds from a get.                                  *)

Callers == {"A", "B"}

\* the largest counter value written by an update
MaxCount == 1

Zero == PyInt(0, 0)

\* f of get(k); set(k, f(value)): the next integer
Increment(v) == PyInt(v.d[1], v.d[2] + 1)

NoCaller ==
    [call |-> NoCall, pending |-> <<>>, done |-> 0, found |-> {},
     res |-> <<>>, held |-> <<>>]

InitTwo ==
    /\ table = {}
    /\ before = {}
    /\ op = NoCall
    /\ result = Ok(PyNone)
    /\ conn = [open |-> TRUE, schema |-> {DefTable}]
    /\ disk = [schema |-> {DefTable}, rows |-> {}]
    /\ kv = DefTable
    /\ callers = [c \in Callers |-> NoCaller]

\* a set_many / remove_many that executes one statement per item
StatementsPerItem(call) ==
    IF call.name = "set_many"
    THEN [i \in 1..Len(call.keys) |->
             [name |-> "set", keys |-> <<call.keys[i]>>, vals |-> <<call.vals[i]>>]]
    ELSE IF call.name = "remove_many"
    THEN [i \in 1..Len(call.keys) |->
             [name |-> "remove_many", keys |-> <<call.keys[i]>>, vals |-> <<>>]]
    ELSE <<call>>

\* the statements a method executes: every method calls execute once
StatementsOf(call) == <<call>>

\* the statement of each method, executed on tbl
ExecStatement(tbl, s) ==
    CASE s.name = "set" -> SetCall(tbl, s.keys[1], s.vals[1])
      [] s.name = "get" -> GetCall(tbl, s.keys[1], DefaultArg(s.vals))
      [] s.name = "get_many" -> GetManyCall(tbl, s.keys)
      [] s.name = "get_glob" -> GetGlobCall(tbl, s.keys[1])
      [] s.name = "set_many" -> SetManyCall(tbl, s.keys, s.vals)
      [] s.name = "remove" -> RemoveCall(tbl, s.keys[1])
      [] OTHER -> RemoveManyCall(tbl, s.keys)

Begin(c, call, held) ==
    /\ callers[c].pending = <<>>
    /\ callers' = [callers EXCEPT ![c] =
                      [call |-> call, pending |-> StatementsOf(call), done |-> 0,
                       found |-> {}, res |-> <<>>, held |-> held]]
    /\ UNCHANGED <<table, before, op, result, conn, disk, kv>>

\* a caller enters a method
TwoCall(C, Q) == \E c \in C, call \in Q : Begin(c, call, <<>>)

\* a caller that holds the value its get(k) returned calls set(k, f(value))
TwoUpdate(C) ==
    \E c \in C :
       /\ callers[c].call.name = "get"
       /\ callers[c].held /= <<>>
       /\ callers[c].held[1].ty = "int"
       /\ callers[c].held[1].d[2] < MaxCount
       /\ Begin(c, [name |-> "set", keys |-> callers[c].call.keys,
                    vals |-> <<Increment(callers[c].held[1])>>],
                callers[c].held)

\* the engine executes a caller's next statement; an exception ends the call
TwoStep(C) ==
    \E c \in C :
       /\ callers[c].pending /= <<>>
       /\ LET s == Head(callers[c].pending)
              out == Execute(ExecStatement(table, s), table)
          IN  /\ table' = out.tbl
              /\ callers' = [callers EXCEPT ![c] =
                    [@ EXCEPT !.pending = IF out.res.status = "ok" THEN Tail(@) ELSE <<>>,
                              !.done = @ + 1,
                              !.found = table,
                              !.res = <<out.res>>,
                              !.held = IF s.name /= "get" THEN @
                                       ELSE IF out.res.status = "ok" THEN <<out.res.ret>>
                                       ELSE <<>>]]
       /\ UNCHANGED <<before, op, result, conn, disk, kv>>

TwoCalls ==
    {[name |-> "get", keys |-> <<Ka>>, vals |-> <<>>],
     [name |-> "get_many", keys |-> <<Ka, Kab>>, vals |-> <<>>],
     [name |-> "get_glob", keys |-> <<<<97, Star>>>>, vals |-> <<>>],
     [name |-> "set_many", keys |-> <<Ka, Kab>>, vals |-> <<Zero, Zero>>],
     [name |-> "remove_many", keys |-> <<Ka, Kab>>, vals |-> <<>>]}

NextTwo ==
    \/ TwoCall(Callers, TwoCalls)
    \/ TwoUpdate(Callers)
    \/ TwoStep(Callers)

SpecTwo == InitTwo /\ [][NextTwo]_vars

----------------------------------------------------------------------------
(* Vocabulary of the properties. *)

\* get(key) with no default, on table tbl
GetNow(tbl, key) == GetCall(tbl, key, DefaultArg(<<>>)).res

\* key has an entry in tbl
HasEntry(tbl, key) == \E r \in tbl : KeyEq(r.k, key)

\* the values the round trip is promised for: none, string, bytes, boolean,
\* integer of magnitude at most 2^53, float, structured (picklable) object
WithinTwo53(v) == v.d[1] = 0 \/ (v.d[1] = 1 /\ v.d[2] <= 0)

Supported(v) ==
    \/ v.ty \in {"NoneType", "str", "bytes", "bool", "float", "object", "ellipsis"}
    \/ v.ty = "int" /\ WithinTwo53(v)

----------------------------------------------------------------------------
\* C1: in any reachable state, set(k, v) of a supported value v followed
\* immediately by get(k) returns a value equal to v.
C1_RoundTrip ==
    (op.name = "set" /\ Supported(op.vals[1]))
        => /\ result.status = "ok"
           /\ GetNow(table, op.keys[1]).status = "ok"
           /\ PyEq(GetNow(table, op.keys[1]).ret, op.vals[1])

\* The round trip of every supported value but NaN (the extent of C1's
\* failure).
RoundTripButNaN ==
    (op.name = "set" /\ Supported(op.vals[1]) /\ ~IsNaN(op.vals[1]))
        => /\ result.status = "ok"
           /\ GetNow(table, op.keys[1]).status = "ok"
           /\ PyEq(GetNow(table, op.keys[1]).ret, op.vals[1])

\* C2: after set(k, v2) on a key that held v1 /= v2, get(k) returns v2, the
\* row carries the type tag and payload of v2 alone, and the table holds
\* exactly one row for k.
C2_Overwrite ==
    (/\ op.name = "set"
     /\ result.status = "ok"
     /\ HasEntry(before, op.keys[1])
     /\ GetNow(before, op.keys[1]).status = "ok"
     /\ ~PyEq(GetNow(before, op.keys[1]).ret, op.vals[1]))
        => /\ GetNow(table, op.keys[1]).status = "ok"
           /\ PyEq(GetNow(table, op.keys[1]).ret, op.vals[1])
           /\ Cardinality(SelectByKey(table, op.keys[1])) = 1
           /\ \A r \in SelectByKey(table, op.keys[1]) :
                 /\ r.t = Serialize(op.vals[1]).ret[1]
                 /\ r.v = Bind(Serialize(op.vals[1]).ret[2]).ret

\* C3: get(k, default=D) on a key with no entry returns D whatever D is,
\* get(k) without a default raises KeyError, and neither changes the store.
C3_MissingDefault ==
    (op.name = "get" /\ ~HasEntry(before, op.keys[1]))
        => /\ table = before
           /\ IF op.vals = <<>> THEN result.status = "KeyError"
              ELSE result = Ok(op.vals[1])

\* C3 for every default but Ellipsis (the extent of its failure).
MissingDefaultButEllipsis ==
    (op.name = "get" /\ ~HasEntry(before, op.keys[1]) /\ op.vals /= <<PyEllipsis>>)
        => /\ table = before
           /\ IF op.vals = <<>> THEN result.status = "KeyError"
              ELSE result = Ok(op.vals[1])

----------------------------------------------------------------------------
\* the keys of a returned mapping
KeysOf(mapping) == {i.key : i \in mapping}

\* the elements of a sequence
Range(seq) == {seq[i] : i \in 1..Len(seq)}

\* the requested keys that have an entry
Present(tbl, keys) == {k \in Range(keys) : HasEntry(tbl, k)}

\* C4: get_many(keys) never raises and returns exactly the requested keys
\* that have an entry, each mapped to the value get returns for it; an
\* empty input gives an empty result.
C4_BulkSubset ==
    (op.name = "get_many")
        => /\ result.status = "ok"
           /\ KeysOf(result.ret) = Present(before, op.keys)
           /\ \A i \in result.ret : GetNow(before, i.key) = Ok(i.val)
           /\ (op.keys = <<>> => result.ret = {})

\* C4 as amended: get_many(keys) never raises KeyError and leaves the store
\* alone; its result holds one item per entry that a requested key denotes,
\* under the spelling the entry is stored with (not the requested one), mapped
\* to the value get returns for it; it raises only the decoding error that
\* get raises for one of the requested keys; an empty input gives an empty
\* result.
C4_BulkStoredSpelling ==
    (op.name = "get_many")
        => /\ result.status /= "KeyError"
           /\ table = before
           /\ IF \A k \in Present(before, op.keys) : GetNow(before, k).status = "ok"
              THEN /\ result.status = "ok"
                   /\ KeysOf(result.ret) =
                         {r.k : r \in {x \in before : \E k \in Range(op.keys) : KeyEq(x.k, k)}}
                   /\ \A i \in result.ret : GetNow(before, i.key) = Ok(i.val)
                   /\ \A k \in Present(before, op.keys) :
                         \E i \in result.ret : GetNow(before, k) = Ok(i.val)
                   /\ (op.keys = <<>> => result.ret = {})
              ELSE \E k \in Present(before, op.keys) : result = GetNow(before, k)

\* get_many asked for a, which is stored as A, and for é, which has no entry
C4_Witness ==
    /\ op.name = "get_many"
    /\ op.keys = <<Ka, Ke>>
    /\ result = Ok({[key |-> KA, val |-> One]})

\* set(k, v) for each item in turn, stopping at the first that raises
RECURSIVE SetEach(_, _, _)
SetEach(tbl, keys, vals) ==
    IF keys = <<>> THEN Done(Ok(PyNone), tbl)
    ELSE LET first == SetCall(tbl, Head(keys), Head(vals)) IN
         IF first.res.status /= "ok" THEN first
         ELSE SetEach(first.tbl, Tail(keys), Tail(vals))

\* C5: for any mapping m, the empty one included, whose items set() accepts,
\* set_many(m) completes without error and leaves the table as one set(k, v)
\* per item, in order, leaves it.
C5_BatchEquivalence ==
    (/\ op.name = "set_many"
     /\ SetEach(before, op.keys, op.vals).res.status = "ok")
        => /\ result.status = "ok"
           /\ table = SetEach(before, op.keys, op.vals).tbl

\* C5 for every mapping but the empty one (the extent of its failure).
BatchEquivalenceButEmpty ==
    (/\ op.name = "set_many"
     /\ op.keys /= <<>>
     /\ SetEach(before, op.keys, op.vals).res.status = "ok")
        => /\ result.status = "ok"
           /\ table = SetEach(before, op.keys, op.vals).tbl

\* C6: remove(k) on a key with an entry succeeds, get(k) then raises
\* KeyError, every other entry is unchanged and a second remove(k) raises
\* KeyError; on a key with no entry it raises KeyError and the store is
\* unchanged.
C6_Remove ==
    (op.name = "remove")
        => IF HasEntry(before, op.keys[1])
           THEN /\ result.status = "ok"
                /\ GetNow(table, op.keys[1]).status = "KeyError"
                /\ table = {r \in before : ~KeyEq(r.k, op.keys[1])}
                /\ RemoveCall(table, op.keys[1]).res.status = "KeyError"
                /\ RemoveCall(table, op.keys[1]).tbl = table
           ELSE /\ result.status = "KeyError"
                /\ table = before

\* remove took an entry out and left another in
C6_Witness ==
    /\ op.name = "remove"
    /\ result.status = "ok"
    /\ table /= {}
    /\ table /= before

\* C7: remove_many(keys) never fails; afterwards no listed key has an entry,
\* every entry of an unlisted key is unchanged, and the same call again
\* changes nothing.
C7_RemoveMany ==
    (op.name = "remove_many")
        => /\ result.status = "ok"
           /\ \A k \in Range(op.keys) : GetNow(table, k).status = "KeyError"
           /\ table = {r \in before : \A k \in Range(op.keys) : ~KeyEq(r.k, k)}
           /\ RemoveManyCall(table, op.keys) = Done(Ok(PyNone), table)

\* remove_many was given a key with an entry and a key without, and left a
\* third entry in
C7_Witness ==
    /\ op.name = "remove_many"
    /\ \E k \in Range(op.keys) : HasEntry(before, k)
    /\ \E k \in Range(op.keys) : ~HasEntry(before, k)
    /\ table /= {}
    /\ result.status = "ok"

----------------------------------------------------------------------------
\* Two spellings that differ only in letter case: the lower case of a letter
\* of ASCII or of Latin-1 (À..Þ but the sign ×) is 32 code points up.
LowerLetter(c) ==
    IF c \in 65..90 \/ (c \in 192..222 /\ c /= 215) THEN c + 32 ELSE c

SameButCase(a, b) ==
    /\ Len(a) = Len(b)
    /\ \A i \in 1..Len(a) : LowerLetter(a[i]) = LowerLetter(b[i])

\* ... only in the case of the letters A-Z, a-z
LowerAsciiLetter(c) == IF 65 <= c /\ c <= 90 THEN c + 32 ELSE c

SameButAsciiCase(a, b) ==
    /\ Len(a) = Len(b)
    /\ \A i \in 1..Len(a) : LowerAsciiLetter(a[i]) = LowerAsciiLetter(b[i])

\* after set(k, v): every exact-key operation given spelling k2 does what it
\* does given k, on the one row that set wrote
SameEntry(k, k2, v) ==
    /\ GetNow(table, k2) = GetNow(table, k)
    /\ SelectByKey(table, k2) = {r \in table : r.k = k}
    /\ Cardinality(SelectByKey(table, k2)) = 1
    /\ (Supported(v) /\ ~IsNaN(v))
          => (GetNow(table, k2).status = "ok" /\ PyEq(GetNow(table, k2).ret, v))
    /\ \A w \in CaseValues :
          /\ SetCall(table, k2, w).res.status = "ok"
          /\ GetNow(SetCall(table, k2, w).tbl, k) = GetNow(SetCall(table, k, w).tbl, k)
          /\ Cardinality(SetCall(table, k2, w).tbl) = Cardinality(table)
    /\ RemoveCall(table, k2).res.status = "ok"
    /\ GetNow(RemoveCall(table, k2).tbl, k).status = "KeyError"
    /\ GetManyCall(table, <<k2>>) = GetManyCall(table, <<k>>)
    /\ GetManyCall(table, <<k2>>).res.status = "ok"
          => KeysOf(GetManyCall(table, <<k2>>).res.ret) = {k}
    /\ RemoveManyCall(table, <<k2>>) = RemoveManyCall(table, <<k>>)
    /\ GetNow(RemoveManyCall(table, <<k2>>).tbl, k).status = "KeyError"

\* C8: two keys that differ only in letter case denote the same entry for
\* every exact-key operation (get, set, remove, get_many, remove_many).
C8_CaseInsensitive ==
    (op.name = "set" /\ result.status = "ok")
        => \A k2 \in CaseKeys :
              SameButCase(k2, op.keys[1]) => SameEntry(op.keys[1], k2, op.vals[1])

\* C8 as amended: two keys that differ only in the case of the ASCII letters
\* A-Z denote the same entry for every exact-key operation; any other two
\* keys, those that differ in the case of a letter outside ASCII included,
\* denote different entries: a set of one leaves the other's row and what
\* get returns for it as they were.
C8_AsciiCaseInsensitive ==
    (op.name = "set" /\ result.status = "ok")
        => \A k2 \in CaseKeys :
              IF SameButAsciiCase(k2, op.keys[1])
              THEN SameEntry(op.keys[1], k2, op.vals[1])
              ELSE /\ {r \in table : r.k = k2} = {r \in before : r.k = k2}
                   /\ GetNow(table, k2) = GetNow(before, k2)

\* set("A", v) where "a" and "é" are stored
C8_Witness ==
    /\ op.name = "set"
    /\ op.keys = <<KA>>
    /\ result.status = "ok"
    /\ \E r \in before : r.k = Ka
    /\ \E r \in table : r.k = Ke
    /\ ~(\E r \in table : r.k = Ka)

\* a pattern matches a key: the key splits into one piece per pattern
\* character, any piece for *, any one character for ?, the character itself
\* (same case) for every other
Matches(pattern, k) ==
    \E cut \in [1..(Len(pattern) + 1) -> 0..Len(k)] :
        /\ cut[1] = 0
        /\ cut[Len(pattern) + 1] = Len(k)
        /\ \A i \in 1..Len(pattern) :
              IF pattern[i] = Star THEN cut[i] <= cut[i + 1]
              ELSE /\ cut[i + 1] = cut[i] + 1
                   /\ (pattern[i] = QMark \/ pattern[i] = k[cut[i + 1]])

\* C9: get_glob(pattern) returns exactly the entries whose stored spelling
\* matches the pattern, case-sensitively, each mapped to its decoded value.
C9_Glob ==
    (op.name = "get_glob")
        => /\ result.status = "ok"
           /\ KeysOf(result.ret) = {r.k : r \in {x \in before : Matches(op.keys[1], x.k)}}
           /\ \A i \in result.ret : GetNow(before, i.key) = Ok(i.val)

\* C9 where every matching entry decodes (the extent of its failure).
GlobButUndecodable ==
    (/\ op.name = "get_glob"
     /\ \A r \in before : Matches(op.keys[1], r.k) => DecodeRow(r).status = "ok")
        => /\ result.status = "ok"
           /\ KeysOf(result.ret) = {r.k : r \in {x \in before : Matches(op.keys[1], x.k)}}
           /\ \A i \in result.ret : GetNow(before, i.key) = Ok(i.val)

\* C10: an operation that raises leaves the table exactly as it found it;
\* no item of a set_many that raises is written.
C10_NoPartialFailure == result.status /= "ok" => table = before

\* set_many raised on its second item after a first item that set() alone
\* would have written
C10_Witness ==
    /\ op.name = "set_many"
    /\ Len(op.keys) = 2
    /\ result.status = "OverflowError"
    /\ ~HasEntry(before, op.keys[1])
    /\ SetCall(before, op.keys[1], op.vals[1]).res.status = "ok"

----------------------------------------------------------------------------
(* Persistence and construction, under SpecLife. *)

StoreOps == {"set", "get", "get_many", "get_glob", "set_many", "remove", "remove_many"}

\* the step is the call `name`
Calls(name) == Idle /\ op'.name = name

\* item i of a mapping is the last one written under its key
LastFor(keys, i) == \A j \in (i + 1)..Len(keys) : ~KeyEq(keys[j], keys[i])

\* a set / set_many that succeeds leaves each supported value readable and
\* equal to the one written
WrittenReadsBack(call, tbl) ==
    \A i \in 1..Len(call.keys) :
       (Supported(call.vals[i]) /\ LastFor(call.keys, i))
          => /\ GetNow(tbl, call.keys[i]).status = "ok"
             /\ PyEq(GetNow(tbl, call.keys[i]).ret, call.vals[i])

\* the same, NaN aside
WrittenButNaNReadsBack(call, tbl) ==
    \A i \in 1..Len(call.keys) :
       (Supported(call.vals[i]) /\ ~IsNaN(call.vals[i]) /\ LastFor(call.keys, i))
          => /\ GetNow(tbl, call.keys[i]).status = "ok"
             /\ PyEq(GetNow(tbl, call.keys[i]).ret, call.vals[i])

\* the file changes at commit only; commit makes the connection's rows the
\* file's rows; no store call commits, and a failing one rolls nothing
\* back; a new connection reads what the file holds
Durable ==
    /\ disk'.rows /= disk.rows => Calls("commit")
    /\ (Calls("commit") /\ result'.status = "ok") => disk'.rows = table
    /\ (Idle /\ op'.name \in StoreOps)
          => /\ disk' = disk
             /\ result'.status /= "ok" => table' = table
    /\ Calls("close") => disk' = disk
    /\ Calls("connect")
          => /\ table' = disk.rows
             /\ \A k \in LifeKeys : GetNow(table', k) = GetNow(disk.rows, k)

\* C11: what set / set_many wrote and the caller committed before closing
\* the connection is read back by get, equal to the value written, on a
\* new store over a new connection; the store neither commits nor rolls
\* back, so the file changes only when the caller commits
C11_Persistence ==
    [][/\ (Idle /\ op'.name \in {"set", "set_many"} /\ result'.status = "ok")
             => WrittenReadsBack(op', table')
       /\ Durable]_vars

\* persistence of every value but NaN
PersistenceButNaN ==
    [][/\ (Idle /\ op'.name \in {"set", "set_many"} /\ result'.status = "ok")
             => WrittenButNaNReadsBack(op', table')
       /\ Durable]_vars

----------------------------------------------------------------------------
(* Reads, tags and the codec. *)

Reads == {"get", "get_many", "get_glob"}

\* C13: get, get_many and get_glob leave every row (spelling, tag, payload)
\* as it was, whatever they return or raise.
C13_ReadsDoNotMutate == op.name \in Reads => table = before

\* a get has returned the value of an entry, a get_many a mapping of two
\* entries, and the table still holds them
C13_Witness ==
    /\ op.name \in {"get", "get_many"}
    /\ result.status = "ok"
    /\ \E key \in Range(op.keys) : HasEntry(before, key)
    /\ Cardinality(table) = 2

\* C14: every stored row has a tag in 1..6 and a NULL payload only under
\* the tag NONE; no read raises the unsupported-type error.
C14_TypeTag ==
    /\ \A r \in table : IsDType(r.t) /\ (r.v.cls = "NULL" => r.t = NONE)
    /\ op.name \in Reads => result.status /= "ValueError"

\* C14 where a NUMBER row may have a NULL payload (the extent of its failure)
TypeTagButNaN ==
    /\ \A r \in table : IsDType(r.t) /\ (r.v.cls = "NULL" => r.t \in {NONE, NUMBER})
    /\ op.name \in Reads => result.status /= "ValueError"

\* the tag of a value, by its type
TagOf(v) ==
    CASE v.ty = "NoneType" -> NONE
      [] v.ty = "str" -> STR
      [] v.ty = "bytes" -> BYTES
      [] v.ty = "bool" -> BOOL
      [] v.ty \in {"int", "float"} -> NUMBER
      [] OTHER -> PICKLE

\* the one row key is stored under
RowOf(tbl, key) == CHOOSE r \in tbl : KeyEq(r.k, key)

\* C15: a bool is stored under the tag BOOL with payload 1 / 0, never under
\* NUMBER, and read back as a bool, while an int is read back as an int;
\* every value that set accepts is stored under the one tag of its type.
C15_BoolBeforeNumber ==
    (op.name = "set" /\ result.status = "ok")
        => LET key == op.keys[1]
               value == op.vals[1]
           IN  /\ Cardinality(SelectByKey(table, key)) = 1
               /\ RowOf(table, key).t = TagOf(value)
               /\ value.ty = "bool"
                     => /\ RowOf(table, key).v = [cls |-> "INTEGER", d |-> <<0, value.d[1]>>]
                        /\ GetNow(table, key) = Ok(value)
               /\ (value.ty = "int" /\ WithinTwo53(value))
                     => GetNow(table, key) = Ok(value)

\* True has been set
C15_Witness ==
    /\ op.name = "set"
    /\ result.status = "ok"
    /\ op.vals[1] = PyBool(1)
    /\ GetNow(table, op.keys[1]) = Ok(PyBool(1))

\* a stored number has no fractional part
Whole(v) == v.cls = "INTEGER" \/ (v.cls = "REAL" /\ Len(v.d) = 2 /\ v.d[2] % 2 = 0)

\* C16: a NUMBER row decodes to an int when the stored number has no
\* fractional part and to a float otherwise, whichever of int and float was
\* written: 2.0 and 2 are read back as the int 2, 2.5 as the float 2.5.
C16_NumberNarrowing ==
    /\ \A r \in table :
          r.t = NUMBER
             => /\ DecodeRow(r).status = "ok"
                /\ DecodeRow(r).ret.ty = (IF Whole(r.v) THEN "int" ELSE "float")
    /\ (op.name = "set" /\ result.status = "ok" /\ op.vals[1].ty \in {"int", "float"})
          => /\ GetNow(table, op.keys[1]).status = "ok"
             /\ Supported(op.vals[1]) => PyEq(GetNow(table, op.keys[1]).ret, op.vals[1])
             /\ op.vals[1] = PyFloat(0, 4) => GetNow(table, op.keys[1]) = Ok(PyInt(0, 2))
             /\ op.vals[1] = PyFloat(0, 5) => GetNow(table, op.keys[1]) = Ok(PyFloat(0, 5))

\* C16 for every NUMBER row but the one NaN leaves (the extent of its failure)
NarrowingButNaN ==
    /\ \A r \in table :
          (r.t = NUMBER /\ r.v.cls /= "NULL")
             => /\ DecodeRow(r).status = "ok"
                /\ DecodeRow(r).ret.ty = (IF Whole(r.v) THEN "int" ELSE "float")
    /\ (op.name = "set" /\ result.status = "ok" /\ op.vals[1].ty \in {"int", "float"}
        /\ ~IsNaN(op.vals[1]))
          => /\ GetNow(table, op.keys[1]).status = "ok"
             /\ Supported(op.vals[1]) => PyEq(GetNow(table, op.keys[1]).ret, op.vals[1])
             /\ op.vals[1] = PyFloat(0, 4) => GetNow(table, op.keys[1]) = Ok(PyInt(0, 2))
             /\ op.vals[1] = PyFloat(0, 5) => GetNow(table, op.keys[1]) = Ok(PyFloat(0, 5))

\* C18: a stored None is an entry: after set(k, None), get(k) returns None,
\* with a default too; get_many([k]) maps k to None; remove(k) succeeds.
C18_StoredNone ==
    /\ (op.name = "set" /\ result.status = "ok" /\ op.vals[1] = PyNone)
          => LET k == op.keys[1] IN
             /\ GetNow(table, k) = Ok(PyNone)
             /\ \A d \in Defaults : GetCall(table, k, d).res = Ok(PyNone)
             /\ GetManyCall(table, <<k>>).res = Ok({[key |-> k, val |-> PyNone]})
             /\ RemoveCall(table, k).res = Ok(PyNone)
             /\ ~HasEntry(RemoveCall(table, k).tbl, k)
    /\ (op.name = "get" /\ \E r \in SelectByKey(before, op.keys[1]) : r.t = NONE)
          => result = Ok(PyNone)

\* get(k, default=1) has returned None for a stored None
C18_Witness ==
    /\ op.name = "get"
    /\ op.vals = <<One>>
    /\ \E r \in SelectByKey(before, op.keys[1]) : r.t = NONE
    /\ result = Ok(PyNone)

----------------------------------------------------------------------------
(* Rows and spellings. *)

\* Under the key equivalence Same: no two rows have the same key; a set /
\* set_many leaves, for each key it wrote, the row of the last item written
\* under that key, spelled as that item spells it, and every other row as
\* it was; remove / remove_many only take rows away; get_many / get_glob
\* report stored spellings.
OneRowLatestSpelling(Same(_, _)) ==
    /\ \A r1, r2 \in table : Same(r1.k, r2.k) => r1 = r2
    /\ (op.name \in {"set", "set_many"} /\ result.status = "ok")
          => /\ \A i \in 1..Len(op.keys) :
                   (\A j \in (i + 1)..Len(op.keys) : ~Same(op.keys[j], op.keys[i]))
                      => /\ \E r \in table : r.k = op.keys[i]
                         /\ SetCall({}, op.keys[i], op.vals[i]).tbl \subseteq table
             /\ \A r \in before :
                   (\A i \in 1..Len(op.keys) : ~Same(op.keys[i], r.k)) => r \in table
             /\ \A r \in table : r \in before \/ \E i \in 1..Len(op.keys) : r.k = op.keys[i]
    /\ op.name \in {"remove", "remove_many"} => table \subseteq before
    /\ (op.name \in {"get_many", "get_glob"} /\ result.status = "ok")
          => KeysOf(result.ret) \subseteq {r.k : r \in before}

\* C19: the table never holds two rows whose keys are equal ignoring letter
\* case, and the spelling stored, and reported by get_many / get_glob, is
\* that of the most recent set / set_many that wrote the entry.
C19_OneRowPerFoldedKey == OneRowLatestSpelling(SameButCase)

\* C19 as amended: the table never holds two rows whose keys are equal
\* ignoring the case of the ASCII letters A-Z (keys that differ in the case
\* of a letter outside ASCII are different keys with a row each), and the
\* spelling stored, and reported by get_many / get_glob, is that of the most
\* recent set / set_many that wrote the entry.
C19_OneRowPerAsciiFoldedKey == OneRowLatestSpelling(SameButAsciiCase)

\* a set has respelled an entry and left another entry alone
C19_Witness ==
    /\ op.name = "set"
    /\ result.status = "ok"
    /\ \E r \in before : r.k /= op.keys[1] /\ SameButAsciiCase(r.k, op.keys[1])
    /\ \E r \in table : r.k = op.keys[1]
    /\ Cardinality(table) = 2
    /\ Cardinality(before) = 2

----------------------------------------------------------------------------
(* Two callers, under SpecTwo. *)

\* some but not all statements of d's call have been executed
Partial(d) == callers[d].done > 0 /\ callers[d].pending /= <<>>

\* the step executes the statement of c's get_many / get_glob
ReadRuns(c) ==
    /\ callers[c].pending /= <<>>
    /\ Head(callers[c].pending).name \in {"get_many", "get_glob"}
    /\ callers'[c].done = callers[c].done + 1

\* C17: every call executes exactly one statement, so the statement of a
\* get_many / get_glob never runs on a table to which part of another
\* caller's set_many or remove_many has been applied.  (That get(k) then
\* set(k, f(value)) is not isolated is the reachability of C17_Witness.)
C17_SingleStatement ==
    [][\A c \in Callers :
          /\ callers'[c].call /= NoCall
                => callers'[c].done + Len(callers'[c].pending) = 1
          /\ ReadRuns(c) => \A d \in Callers \ {c} : ~Partial(d)]_vars

\* a lost update: c read 0 by get(k) and has now executed set(k, 1), on a
\* table where the other caller's set(k, 1) had replaced the 0 in between;
\* k holds 1 after two increments.
C17_Witness ==
    \E c \in Callers : \E d \in Callers \ {c} :
       /\ callers[c].call.name = "set"
       /\ callers[c].done = 1
       /\ callers[c].held = <<Zero>>
       /\ GetNow(callers[c].found, Ka) = Ok(Increment(Zero))
       /\ callers[d].call = callers[c].call
       /\ callers[d].done = 1
       /\ callers[d].held = <<Zero>>
       /\ GetNow(callers[d].found, Ka) = Ok(Zero)
       /\ GetNow(table, Ka) = Ok(Increment(Zero))

====
